---- MODULE Spec2Model ----
(***************************************************************************)
(* Model of the pre-authorization batch script (src/aws):                  *)
(*   - webdriver.py : WebDriver, one session over two engines (a requests  *)
(*     cookie jar and a selenium browser) with cookie swapping;            *)
(*   - process.py   : process_patient / process_pnr and their helpers;     *)
(*   - __main__.py  : process_patients (the batch driver) and login.       *)
(* Python exceptions are modelled by the variable exc: an action that      *)
(* raises sets exc and moves pc to "raised"; no handler exists in          *)
(* process_patients, process_patient or process_pnr, so the exception      *)
(* leaves process_patients.                                                *)
(***************************************************************************)
EXTENDS Integers, Sequences, FiniteSets, TLC

(***************************************************************************)
(* Bounds of the model.                                                    *)
(***************************************************************************)
MaxPatients == 2        \* patients in a batch: 0..MaxPatients
MaxPnr == 2             \* tracking ids of one patient: 0..MaxPnr
MaxCookieValue == 2     \* cookie values a server may set: 1..MaxCookieValue

(***************************************************************************)
(* Values.                                                                 *)
(***************************************************************************)
None == "None"                      \* Python's None
PortalDomain == "app.investire-in-italy.it"
LoginDomain == "app.investire-in-italy"
Domains == {PortalDomain, LoginDomain}
AnyDomain == ""                     \* domain of a cookie made by cookies.set(name, value)
CookieNames == {"sid"}
CookieValues == 1..MaxCookieValue

Url(domain, path, query) == <<domain, path, query>>
netloc(url) == url[1]               \* urlparse(url).netloc

url_login == Url(LoginDomain, "/CentriDiagnostici/MenuCentri", "")
url_database == Url(PortalDomain, "/CentriDiagnostici/ControlloQuadri/GridAutorizzazioni_Read", "")
url_identify_patient == Url(PortalDomain, "/CentriDiagnostici/ControlloQuadri/Index2", "")
url_cerca_quadro(pnr) == Url(PortalDomain, "/GestionePNR/CercaQuadro", pnr)
BareUrl(domain) == Url(domain, "", "")

\* What a response may carry in Set-Cookie: at most one value per cookie name.
SetCookies ==
    {s \in SUBSET [name : CookieNames, value : CookieValues] :
        \A a \in s, b \in s : a.name = b.name => a = b}

(***************************************************************************)
(* The WebDriver object: self.backend["requests"] is a cookie jar          *)
(* (reqJar, with the order reqOrder in which its domains were first        *)
(* stored: the jar iterates its cookies domain by domain in that order),   *)
(* self.backend["selenium"] is a browser (its cookie jar selJar, the       *)
(* domain selDomain of the page it is on, quits = calls of quit()).        *)
(* wire holds the requests the last operation put on the network, asked    *)
(* the domains the requests session has sent a request to and visited the  *)
(* domains the browser has navigated to.                                   *)
(***************************************************************************)
NewWebDriver ==
    [reqJar |-> {}, reqOrder |-> <<>>, selJar |-> {}, selDomain |-> None,
     current_url |-> <<None>>, quits |-> 0, wire |-> <<>>, asked |-> {},
     visited |-> {}]

Store(jar, domain, cs) ==
    {c \in jar : ~(c.domain = domain /\ \E x \in cs : x.name = c.name)}
    \cup {[domain |-> domain, name |-> x.name, value |-> x.value] : x \in cs}

Touch(order, domain, cs) ==
    IF cs = {} \/ \E i \in 1..Len(order) : order[i] = domain
    THEN order ELSE Append(order, domain)

\* requests.Session.get / .post: the response's cookies are stored under the
\* host of the URL. A request on the wire is the tuple of strings
\* <<engine, method, domain, path, query>> followed by the payload's values.
RequestsSend(wd, method, url, payload, resp) ==
    [wd EXCEPT !.reqJar = Store(@, netloc(url), resp),
               !.reqOrder = Touch(@, netloc(url), resp),
               !.wire = Append(@, <<"requests", method>> \o url \o payload),
               !.asked = @ \cup {netloc(url)}]

\* selenium's driver.get(url): the browser is then on a page of that domain.
SeleniumGet(wd, url, resp) ==
    [wd EXCEPT !.selJar = Store(@, netloc(url), resp),
               !.selDomain = netloc(url),
               !.wire = Append(@, <<"selenium", "GET">> \o url),
               !.visited = @ \cup {netloc(url)}]

\* selenium's get_cookies(): the cookies of the current page's domain.
SeleniumCookies(wd) == {c \in wd.selJar : c.domain = wd.selDomain}

\* requests' cookies.get_dict(): every cookie of the jar, whatever its domain,
\* as name -> value; a name held under several domains keeps the value of the
\* domain iterated last.
RECURSIVE DictOf(_, _, _)
DictOf(jar, order, acc) ==
    IF order = <<>> THEN acc
    ELSE LET here == {c \in jar : c.domain = Head(order)}
             kept == {x \in acc : ~\E c \in here : c.name = x.name}
         IN  DictOf(jar, Tail(order),
                    kept \cup {[name |-> c.name, value |-> c.value] : c \in here})

get_dict(wd) == DictOf(wd.reqJar, wd.reqOrder, {})

cookies_requests_to_selenium(wd, fetched_url, navResp) ==
    LET cookies == get_dict(wd)
        fetched_domain == netloc(fetched_url)
        visited == \E cookie \in SeleniumCookies(wd) : cookie.domain = fetched_domain
        w1 == IF visited THEN wd ELSE SeleniumGet(wd, BareUrl(fetched_domain), navResp)
    IN  [w1 EXCEPT !.selJar = Store(@, w1.selDomain, cookies)]

cookies_selenium_to_requests(wd) ==
    LET cookies == {[name |-> c.name, value |-> c.value] : c \in SeleniumCookies(wd)}
    IN  [wd EXCEPT !.reqJar = Store(@, AnyDomain, cookies),
                   !.reqOrder = Touch(@, AnyDomain, cookies)]

post(wd, url, payload, resp) ==
    RequestsSend([wd EXCEPT !.wire = <<>>], "POST", url, payload, resp)

get_requests(wd, url, resp, navResp) ==
    LET w1 == RequestsSend([wd EXCEPT !.wire = <<>>], "GET", url, <<>>, resp)
        w2 == cookies_requests_to_selenium(w1, url, navResp)
    IN  [w2 EXCEPT !.current_url = url]

get_selenium(wd, url, resp) ==
    LET w1 == SeleniumGet([wd EXCEPT !.wire = <<>>], url, resp)
        w2 == cookies_selenium_to_requests(w1)
    IN  [w2 EXCEPT !.current_url = url]

\* The else-branch of line 49 fetches with requests before it raises.
get_FetchThenRaise(wd, url, backend, resp, navResp) ==
    IF backend = "selenium" THEN [wd |-> get_selenium(wd, url, resp), exc |-> None]
    ELSE IF backend = "requests"
         THEN [wd |-> get_requests(wd, url, resp, navResp), exc |-> None]
         ELSE [wd |-> get_requests(wd, url, resp, navResp),
               exc |-> "ValueError: Unknown backend"]

\* WebDriver.get: the pair of the session after the call and what it raised.
get(wd, url, backend, resp, navResp) ==
    IF backend = "selenium" THEN [wd |-> get_selenium(wd, url, resp), exc |-> None]
    ELSE IF backend = "requests"
         THEN [wd |-> get_requests(wd, url, resp, navResp), exc |-> None]
         ELSE [wd |-> wd, exc |-> "ValueError: Unknown backend"]

quit(wd) == [wd EXCEPT !.quits = @ + 1, !.wire = <<>>]

(***************************************************************************)
(* Rule configuration (config.yaml, rules_context) and RULES_ENGINE.       *)
(* A rule is a boolean condition over a record with an action text; a      *)
(* rule that reads a field the record lacks is false.                      *)
(***************************************************************************)
AcceptedInsurances == {"QUAS", "QUAS-PENSIONATI"}

Has(rec, f) == f \in DOMAIN rec

RuleHolds(rule, rec) ==
    CASE rule = "minor" -> Has(rec, "age") /\ rec.age < 18
      [] rule = "insurance" ->
            Has(rec, "insurance_name") /\ rec.insurance_name \notin AcceptedInsurances
      [] rule = "already_authorized" -> Has(rec, "pnr_status") /\ rec.pnr_status = 2
      [] rule = "pdf_name" -> Has(rec, "error_codes") /\ "E_NAME" \in rec.error_codes
      [] rule = "pdf_fiscal_code" -> Has(rec, "error_codes") /\ "E_CF" \in rec.error_codes
      [] rule = "no_document" -> Has(rec, "pic") /\ rec.pic = None
      [] OTHER -> FALSE

Rules(group) ==
    CASE group = "rules_context.deal_breakers.rules" ->
            << [rule |-> "minor", action |-> "Patient is a minor"],
               [rule |-> "insurance", action |-> "Insurance not accepted"] >>
      [] group = "rules_context.patient_data.rules" ->
            << [rule |-> "already_authorized", action |-> "PNR already authorized"] >>
      [] group = "rules_context.pdf_analysis.rules" ->
            << [rule |-> "pdf_name", action |-> "PDF: wrong insurance name"],
               [rule |-> "pdf_fiscal_code", action |-> "PDF: wrong fiscal code"] >>
      [] group = "rules_context.webportal.rules" ->
            << [rule |-> "no_document", action |-> "No PIC available, check manually"] >>
      [] OTHER -> << >>

RECURSIVE Matched(_, _)
Matched(rules, rec) ==
    IF rules = <<>> THEN <<>>
    ELSE (IF RuleHolds(Head(rules).rule, rec) THEN <<Head(rules).action>> ELSE <<>>)
         \o Matched(Tail(rules), rec)

\* engine.execute(group, record, comments): the result, and the comment log
\* after the call (the log is the caller's list, appended to in place).
execute(group, rec, log) ==
    LET actions == Matched(Rules(group), rec)
    IN  [passed |-> Len(actions), actions |-> actions, comments |-> log \o actions]

\* " / ".join(texts)
RECURSIVE join(_)
join(texts) ==
    IF texts = <<>> THEN <<>>
    ELSE IF Len(texts) = 1 THEN texts
    ELSE <<Head(texts), " / ">> \o join(Tail(texts))

(***************************************************************************)
(* PNR_STATUS_MANAGER.get_pnr_status: the ordered marker -> status list    *)
(* applied to a fetched page (the set of markers it contains); the first   *)
(* marker of the list that the page contains wins, no marker leaves the    *)
(* status unknown (0).                                                     *)
(***************************************************************************)
MarkerStatus ==
    << [marker |-> "richiesta accettata", status |-> 1],
       [marker |-> "gia' autorizzata", status |-> 2],
       [marker |-> "richiesta rifiutata", status |-> 3] >>
Markers == {MarkerStatus[i].marker : i \in 1..Len(MarkerStatus)}
Pages == SUBSET Markers

RECURSIVE FirstMarker(_, _)
FirstMarker(list, page) ==
    IF list = <<>> THEN 0
    ELSE IF Head(list).marker \in page THEN Head(list).status
    ELSE FirstMarker(Tail(list), page)

get_pnr_status(page) == FirstMarker(MarkerStatus, page)

(***************************************************************************)
(* Input rows (the parsed CSV) and what the portal may answer.             *)
(***************************************************************************)
CurrentYear == 2026
\* The tracking ids of a row: n distinct ids, n in 0..MaxPnr.
PnrLists == {[i \in 1..n |-> "BX00000" \o ToString(i)] : n \in 0..MaxPnr}
Prestazioni == {"Chirurgia dermatologica", "Visite specialistiche"}
Intake ==
    [birthday : {1980, 2015}, insurance_name : {"QUAS", "UNISALUTE"},
     pnr : PnrLists, prestazioni : Prestazioni, esame : {"RX torace"},
     codice_fiscale : {"RSSMRA80A01H501U"}]
Credentials == {"", "centro01", None}

\* Labels of the k-item elements the category picker may show, in page order.
Labels == Prestazioni \cup {"Altre prestazioni", "Prevenzione"}
Offered == UNION {[1..n -> Labels] : n \in 0..2}
\* The "Data" list GridAutorizzazioni_Read may answer for FieldFilter = p, by
\* the NumeroAuth of its rows: no row, or the authorization of p first.
PicFor(p) == "PIC-" \o p
DataRows(p) == {<<>>, <<PicFor(p)>>, <<PicFor(p), "PIC-OTHER">>}
ErrorCodeSets == {{}, {"E_NAME", "E_CF"}}
\* In a batch the portal sets its cookies when it answers the login form.
NoSetCookie == {{}}

VARIABLES
    pc,             \* where process_patients (and the call it is in) stands
    exc,            \* the exception that left process_patients, or None
    nPatients,      \* len(patients)
    idx,            \* patients taken from the list so far
    patient_data,   \* the dict of the patient being processed
    comments,       \* process_patient's comment list
    k,              \* tracking ids of patient_data["pnr"] taken so far
    cs,             \* the interaction _check_request_accepted is at
    error_codes,    \* check_pdf's result for the current tracking id
    response,       \* the Response object: patients added, mail sent
    added,          \* the arguments of the add_patient call for this patient
    wd,             \* the WebDriver object
    trace,          \* what was done, in order, in the current call of
                    \* process_pnr, or else in process_patient or login: the
                    \* requests, the interactions with the page, the status
                    \* derived, the calls of the validator, of the rule engine
                    \* and of add_patient
    appended,       \* the comments appended for the current patient, each
                    \* with the tracking-id iteration (0: before the loop)
    returned,       \* the calls of process_pnr that returned for the current
                    \* patient: tracking id, status derived, pic fetched
    k_items         \* the texts of the k-item elements found in the current
                    \* call of _check_request_accepted, in page order

vars == <<pc, exc, nPatients, idx, patient_data, comments,
          k, cs, error_codes, response, added, wd, trace, appended, returned, k_items>>

Set(rec, f, v) == (f :> v) @@ rec
Tag(i, texts) == [j \in 1..Len(texts) |-> <<i, texts[j]>>]
NoPatient == [pnr |-> <<>>]
NoCall == [patient_data |-> NoPatient, comments |-> <<>>]

Init ==
    /\ pc = "login"
    /\ exc = None
    /\ nPatients \in 0..MaxPatients
    /\ idx = 0
    /\ patient_data = NoPatient
    /\ comments = <<>>
    /\ k = 0
    /\ cs = 0
    /\ error_codes = {}
    /\ response = [rows |-> <<>>, sent |-> FALSE]
    /\ added = NoCall
    /\ wd = NewWebDriver
    /\ trace = <<>>
    /\ appended = <<>>
    /\ returned = <<>>
    /\ k_items = <<>>

Raise(e) == pc' = "raised" /\ exc' = e

\* response.add_patient(patient_data, comments)
add_patient(rec, text) ==
    /\ response' = [response EXCEPT !.rows = Append(@, idx)]
    /\ added' = [patient_data |-> rec, comments |-> text]

(***************************************************************************)
(* __main__.py: login, then the loop of process_patients.                  *)
(***************************************************************************)
\* Line 259 with its first disjunct only: the password is not looked at.
Login_OnlyUsername ==
    /\ pc = "login"
    /\ \E username \in Credentials, password \in Credentials :
       IF username = ""
       THEN /\ Raise("ValueError: username or password missing")
            /\ UNCHANGED <<wd, trace>>
       ELSE \E r1 \in SetCookies, r2 \in SetCookies :
              LET payload == <<username, password>>
                  w1 == post(wd, url_login, payload, r1)
                  w2 == post(w1, url_login, payload, r2)
              IN  /\ wd' = w2
                  /\ trace' = trace \o w1.wire \o w2.wire
                  /\ pc' = "loop"
                  /\ exc' = exc
    /\ UNCHANGED <<nPatients, idx, patient_data, comments,
                   k, cs, error_codes, response, added, appended, returned, k_items>>

\* Line 265 left out: the form is posted once.
Login_OnePost ==
    /\ pc = "login"
    /\ \E username \in Credentials, password \in Credentials :
       IF username = "" \/ password = ""
       THEN /\ Raise("ValueError: username or password missing")
            /\ UNCHANGED <<wd, trace>>
       ELSE \E r2 \in SetCookies :
              LET payload == <<username, password>>
                  w2 == post(wd, url_login, payload, r2)
              IN  /\ wd' = w2
                  /\ trace' = trace \o w2.wire
                  /\ pc' = "loop"
                  /\ exc' = exc
    /\ UNCHANGED <<nPatients, idx, patient_data, comments,
                   k, cs, error_codes, response, added, appended, returned, k_items>>

Login ==
    /\ pc = "login"
    /\ \E username \in Credentials, password \in Credentials :
       IF username = "" \/ password = ""
       THEN /\ Raise("ValueError: username or password missing")
            /\ UNCHANGED <<wd, trace>>
       ELSE \E r1 \in SetCookies, r2 \in SetCookies :
              LET payload == <<username, password>>
                  w1 == post(wd, url_login, payload, r1)
                  w2 == post(w1, url_login, payload, r2)
              IN  /\ wd' = w2
                  /\ trace' = trace \o w1.wire \o w2.wire
                  /\ pc' = "loop"
                  /\ exc' = exc
    /\ UNCHANGED <<nPatients, idx, patient_data, comments,
                   k, cs, error_codes, response, added, appended, returned, k_items>>

\* The next patient is taken while the tracking ids of the current one are
\* still being processed.
NextPatient_BeforeFinalized ==
    /\ pc \in {"loop", "for_pnr"}
    /\ idx < nPatients
    /\ \E row \in Intake : patient_data' = row
    /\ idx' = idx + 1
    /\ pc' = "process_patient"
    /\ trace' = <<>>
    /\ appended' = <<>>
    /\ returned' = <<>>
    /\ comments' = <<>>
    /\ k' = 0
    /\ added' = NoCall
    /\ UNCHANGED <<exc, nPatients, cs, error_codes, response, wd, k_items>>

NextPatient ==
    /\ pc = "loop"
    /\ idx < nPatients
    /\ \E row \in Intake : patient_data' = row
    /\ idx' = idx + 1
    /\ pc' = "process_patient"
    /\ trace' = <<>>
    /\ appended' = <<>>
    /\ returned' = <<>>
    /\ comments' = <<>>
    /\ k' = 0
    /\ added' = NoCall
    /\ UNCHANGED <<exc, nPatients, cs, error_codes, response, wd, k_items>>

EndOfPatients ==
    /\ pc = "loop"
    /\ idx = nPatients
    /\ pc' = "quit"
    /\ UNCHANGED <<exc, nPatients, idx, patient_data, comments,
                   k, cs, error_codes, response, added, wd, trace, appended, returned, k_items>>

Quit ==
    /\ pc = "quit"
    /\ wd' = quit(wd)
    /\ pc' = "send_mail"
    /\ UNCHANGED <<exc, nPatients, idx, patient_data, comments,
                   k, cs, error_codes, response, added, trace, appended, returned, k_items>>

SendMail ==
    /\ pc = "send_mail"
    /\ response' = [response EXCEPT !.sent = TRUE]
    /\ pc' = "done"
    /\ UNCHANGED <<exc, nPatients, idx, patient_data, comments,
                   k, cs, error_codes, added, wd, trace, appended, returned, k_items>>

(***************************************************************************)
(* process.py: process_patient.                                            *)
(***************************************************************************)
\* Line 39: the patient is rejected when a deal-breaker rule matched.
Rejected_MoreThanOne(engine_results) == engine_results.passed > 1
Rejected(engine_results) == engine_results.passed > 0

DealBreakers ==
    /\ pc = "process_patient"
    /\ LET rec == Set(patient_data, "age", CurrentYear - patient_data.birthday)
           engine_results == execute("rules_context.deal_breakers.rules", rec, <<>>)
           evaluated == <<"rules", "rules_context.deal_breakers.rules", "patient_data">>
       IN  /\ comments' = engine_results.comments
           /\ appended' = Tag(0, engine_results.actions)
           /\ IF Rejected(engine_results)
              THEN /\ patient_data' = Set(rec, "pic", None)
                   /\ add_patient(Set(rec, "pic", None), join(engine_results.actions))
                   /\ trace' = trace \o <<evaluated, <<"add_patient">> >>
                   /\ pc' = "loop"
              ELSE /\ patient_data' = rec
                   /\ trace' = Append(trace, evaluated)
                   /\ pc' = "for_pnr"
                   /\ UNCHANGED <<response, added>>
    /\ UNCHANGED <<exc, nPatients, idx, k, cs, error_codes, wd, returned, k_items>>

\* "for pnr in patient_data['pnr']": the next tracking id, if there is one.
ForPnr ==
    /\ pc = "for_pnr"
    /\ k < Len(patient_data.pnr)
    /\ k' = k + 1
    /\ pc' = "fetch_patient_data"
    /\ trace' = <<>>
    /\ UNCHANGED <<exc, nPatients, idx, patient_data, comments,
                   cs, error_codes, response, added, wd, appended, returned, k_items>>

\* Line 59 with a placeholder for a patient without comments.
Finalize_Placeholder ==
    /\ pc = "for_pnr"
    /\ k = Len(patient_data.pnr)
    /\ add_patient(patient_data, IF comments = <<>> THEN <<"-">> ELSE join(comments))
    /\ trace' = Append(trace, <<"add_patient">>)
    /\ pc' = "loop"
    /\ UNCHANGED <<exc, nPatients, idx, patient_data, comments,
                   k, cs, error_codes, wd, appended, returned, k_items>>

Finalize ==
    /\ pc = "for_pnr"
    /\ k = Len(patient_data.pnr)
    /\ add_patient(patient_data, join(comments))
    /\ trace' = Append(trace, <<"add_patient">>)
    /\ pc' = "loop"
    /\ UNCHANGED <<exc, nPatients, idx, patient_data, comments,
                   k, cs, error_codes, wd, appended, returned, k_items>>

(***************************************************************************)
(* Reading the trace.                                                      *)
(***************************************************************************)
IsRequest(e) == e[1] \in {"requests", "selenium"}
IsStatusFetch(e) ==
    Len(e) >= 5 /\ e[1] = "requests" /\ e[2] = "GET" /\ e[4] = url_cerca_quadro("")[2]
IsPicFetch(e) ==
    Len(e) >= 8 /\ e[1] = "requests" /\ e[2] = "POST" /\ e[3] = url_database[1]
    /\ e[4] = url_database[2]
IsConfirmNavigation(e) ==
    Len(e) >= 4 /\ e[1] = "selenium" /\ e[2] = "GET" /\ e[4] = url_identify_patient[2]
IsRules(e, group) == e[1] = "rules" /\ e[2] = group
Events(seg) == {seg[j] : j \in 1..Len(seg)}
\* Of the trace of a call of process_pnr: the tracking id asked for, the
\* status derived, the pic whose document was fetched.
PnrOf(seg) == seg[1][5]
StatusOf(seg) ==
    IF \E e \in Events(seg) : e[1] = "get_pnr_status"
    THEN (CHOOSE e \in Events(seg) : e[1] = "get_pnr_status")[2]
    ELSE "?"
PicOf(seg) ==
    IF \E e \in Events(seg) : e[1] = "fetch_telerik_pdf"
    THEN (CHOOSE e \in Events(seg) : e[1] = "fetch_telerik_pdf")[2]
    ELSE None

(***************************************************************************)
(* process.py: process_pnr.                                                *)
(***************************************************************************)
pnr == patient_data.pnr[k]

\* The branch process_pnr takes on the status (lines 72 and 75).
AfterStatus_OnlyAccepted(status) ==
    IF status = 1 THEN "check_request_accepted" ELSE "no_pic"
AfterStatus_AnyKnown(status) ==
    IF status \in {1, 2, 3}
    THEN IF status = 1 THEN "check_request_accepted" ELSE "fetch_pic"
    ELSE "no_pic"
\* Line 75 without its condition: the confirmation runs for status 2 too.
AfterStatus_AlwaysConfirm(status) ==
    IF status \in {1, 2} THEN "check_request_accepted" ELSE "no_pic"
AfterStatus(status) ==
    IF status \in {1, 2}
    THEN IF status = 1 THEN "check_request_accepted" ELSE "fetch_pic"
    ELSE "no_pic"

FetchPatientData ==
    /\ pc = "fetch_patient_data"
    /\ \E resp \in NoSetCookie, navResp \in NoSetCookie, page \in Pages :
         LET r == get(wd, url_cerca_quadro(pnr), "requests", resp, navResp)
             status == get_pnr_status(page)
         IN  /\ wd' = r.wd
             /\ trace' = trace \o r.wd.wire \o << <<"get_pnr_status", ToString(status)>> >>
             /\ patient_data' = Set(patient_data, "pnr_status", status)
             /\ pc' = AfterStatus(status)
             /\ cs' = IF AfterStatus(status) = "check_request_accepted" THEN 1 ELSE 0
    /\ UNCHANGED <<exc, nPatients, idx, comments, k,
                   error_codes, response, added, appended, returned, k_items>>

FetchPic ==
    /\ pc = "fetch_pic"
    /\ \E resp \in NoSetCookie :
         LET w == post(wd, url_database, <<"page=1", "pageSize=50", pnr>>, resp)
         IN  /\ wd' = w
             /\ trace' = trace \o w.wire
    /\ \/ \E rows \in DataRows(pnr) :
            IF rows = <<>>
            THEN /\ Raise("IndexError: list index out of range")
                 /\ UNCHANGED patient_data
            ELSE /\ patient_data' = Set(patient_data, "pic", rows[1])
                 /\ pc' = "fetch_telerik_pdf"
                 /\ exc' = exc
       \/ /\ Raise("KeyError: Data")
          /\ UNCHANGED patient_data
    /\ UNCHANGED <<nPatients, idx, comments, k, cs,
                   error_codes, response, added, appended, returned, k_items>>

FetchTelerikPdf ==
    /\ pc = "fetch_telerik_pdf"
    /\ trace' = Append(trace, <<"fetch_telerik_pdf", patient_data.pic>>)
    /\ pc' = "check_pdf"
    /\ UNCHANGED <<exc, nPatients, idx, patient_data, comments,
                   k, cs, error_codes, response, added, wd, appended, returned, k_items>>

\* Line 94 left out: the patient_data rules are not evaluated.
CheckPdf_SkipPatientRules ==
    /\ pc = "check_pdf"
    /\ \E codes \in ErrorCodeSets : error_codes' = codes
    /\ trace' = Append(trace, <<"check_pdf", patient_data.pic,
                                patient_data.insurance_name, patient_data.codice_fiscale>>)
    /\ pc' = "rules_pdf_analysis"
    /\ UNCHANGED <<exc, nPatients, idx, patient_data, comments,
                   k, cs, response, added, wd, appended, returned, k_items>>

CheckPdf ==
    /\ pc = "check_pdf"
    /\ \E codes \in ErrorCodeSets : error_codes' = codes
    /\ trace' = Append(trace, <<"check_pdf", patient_data.pic,
                                patient_data.insurance_name, patient_data.codice_fiscale>>)
    /\ pc' = "rules_patient_data"
    /\ UNCHANGED <<exc, nPatients, idx, patient_data, comments,
                   k, cs, response, added, wd, appended, returned, k_items>>

\* engine.execute called with a fresh list instead of the shared one.
Evaluate_FreshList(group, rec, context, next) ==
    LET r == execute(group, rec, <<>>)
    IN  /\ comments' = r.comments
        /\ appended' = appended \o Tag(k, r.actions)
        /\ trace' = Append(trace, <<"rules", group, context>>)
        /\ pc' = next
        /\ UNCHANGED <<exc, nPatients, idx, patient_data, k, cs, response, added, wd,
                       k_items>>

\* engine.execute(group, rec, comments) as a step of process_pnr.
Evaluate(group, rec, context, next) ==
    LET r == execute(group, rec, comments)
    IN  /\ comments' = r.comments
        /\ appended' = appended \o Tag(k, r.actions)
        /\ trace' = Append(trace, <<"rules", group, context>>)
        /\ pc' = next
        /\ UNCHANGED <<exc, nPatients, idx, patient_data, k, cs, response, added, wd,
                       k_items>>

RulesPatientData ==
    /\ pc = "rules_patient_data"
    /\ Evaluate("rules_context.patient_data.rules", patient_data, "patient_data",
                "rules_pdf_analysis")
    /\ UNCHANGED <<error_codes, returned>>

RulesPdfAnalysis ==
    /\ pc = "rules_pdf_analysis"
    /\ Evaluate("rules_context.pdf_analysis.rules", [error_codes |-> error_codes],
                "error_codes", "rules_webportal")
    /\ UNCHANGED <<error_codes, returned>>

\* Line 101 left out: the pic of an earlier tracking id is kept.
NoPic_KeepPic ==
    /\ pc = "no_pic"
    /\ pc' = "rules_webportal"
    /\ UNCHANGED <<exc, nPatients, idx, patient_data, comments, k, cs,
                   error_codes, response, added, wd, trace, appended, returned, k_items>>

\* Line 103 indented into the if-branch: the else-branch returns at once.
NoPic_Return ==
    /\ pc = "no_pic"
    /\ patient_data' = Set(patient_data, "pic", None)
    /\ pc' = "for_pnr"
    /\ UNCHANGED <<exc, nPatients, idx, comments, k, cs,
                   error_codes, response, added, wd, trace, appended, returned, k_items>>

NoPic ==
    /\ pc = "no_pic"
    /\ patient_data' = Set(patient_data, "pic", None)
    /\ pc' = "rules_webportal"
    /\ UNCHANGED <<exc, nPatients, idx, comments, k, cs,
                   error_codes, response, added, wd, trace, appended, returned, k_items>>

RulesWebportal ==
    /\ pc = "rules_webportal"
    /\ Evaluate("rules_context.webportal.rules", patient_data, "patient_data", "for_pnr")
    /\ error_codes' = {}
    /\ returned' = Append(returned, [pnr |-> PnrOf(trace), status |-> StatusOf(trace),
                                     pic |-> PicOf(trace)])

(***************************************************************************)
(* process.py: _check_request_accepted, one interaction at a time (cs).    *)
(* find_element raises NoSuchElementException when the page lacks the      *)
(* element.                                                                *)
(***************************************************************************)
\* Lines 211 and 214 exchanged: the search is clicked again before the
\* note is entered.
Interaction_SearchBeforeNote(i) ==
    CASE i = 2 -> <<"selenium", "send_keys", "PNR", pnr>>
      [] i = 3 -> <<"selenium", "click_js", "cercaQuadro">>
      [] i = 4 -> <<"selenium", "click_js", "btnQuadroOK">>
      [] i = 5 -> <<"selenium", "click", ".k-widget.k-multiselect.k-multiselect-clearable">>
      [] i = 7 -> <<"selenium", "click_js", "btnVerifica">>
      [] i = 9 -> <<"selenium", "click_js", "cercaQuadro">>
      [] i = 10 -> <<"selenium", "send_keys", "NoteAuth", patient_data.esame>>
      [] i = 11 -> <<"selenium", "click_js", "btnIstruisci">>
      [] OTHER -> <<>>

\* The interactions with an element found by find_element, by position.
Interaction(i) ==
    CASE i = 2 -> <<"selenium", "send_keys", "PNR", pnr>>
      [] i = 3 -> <<"selenium", "click_js", "cercaQuadro">>
      [] i = 4 -> <<"selenium", "click_js", "btnQuadroOK">>
      [] i = 5 -> <<"selenium", "click", ".k-widget.k-multiselect.k-multiselect-clearable">>
      [] i = 7 -> <<"selenium", "click_js", "btnVerifica">>
      [] i = 9 -> <<"selenium", "send_keys", "NoteAuth", patient_data.esame>>
      [] i = 10 -> <<"selenium", "click_js", "cercaQuadro">>
      [] i = 11 -> <<"selenium", "click_js", "btnIstruisci">>
      [] OTHER -> <<>>

LastInteraction == 11

ConfirmStay ==
    UNCHANGED <<nPatients, idx, patient_data, comments, k,
                error_codes, response, added, appended, returned>>

\* After interaction cs: the next one, or back in process_pnr.
ConfirmAdvance ==
    /\ exc' = exc
    /\ IF cs = LastInteraction
       THEN pc' = "fetch_pic" /\ cs' = 0
       ELSE pc' = pc /\ cs' = cs + 1

\* The elements found are local to the call: gone when it returns.
ConfirmLocals == k_items' = IF cs = LastInteraction THEN <<>> ELSE k_items

\* Line 153 with the default backend.
ConfirmNavigate_Requests ==
    /\ pc = "check_request_accepted"
    /\ cs = 1
    /\ \E resp \in NoSetCookie :
         LET r == get(wd, url_identify_patient, "requests", resp, {})
         IN  /\ wd' = r.wd
             /\ trace' = trace \o r.wd.wire
    /\ ConfirmAdvance
    /\ ConfirmLocals
    /\ ConfirmStay

ConfirmNavigate ==
    /\ pc = "check_request_accepted"
    /\ cs = 1
    /\ \E resp \in NoSetCookie :
         LET r == get(wd, url_identify_patient, "selenium", resp, {})
         IN  /\ wd' = r.wd
             /\ trace' = trace \o r.wd.wire
    /\ ConfirmAdvance
    /\ ConfirmLocals
    /\ ConfirmStay

ConfirmElement ==
    /\ pc = "check_request_accepted"
    /\ Interaction(cs) # <<>>
    /\ \/ /\ trace' = Append(trace, Interaction(cs))
          /\ ConfirmAdvance
          /\ ConfirmLocals
       \/ /\ Raise("NoSuchElementException")
          /\ UNCHANGED <<trace, cs, k_items>>
    /\ UNCHANGED wd
    /\ ConfirmStay

\* The loops the other way round: the first offered item that is the text
\* of any of the codes.
FindItem_FirstItem(codes_to_try, items) ==
    LET hits == {i \in 1..Len(items) : \E c \in 1..Len(codes_to_try) : items[i] = codes_to_try[c]}
    IN  IF hits # {} THEN CHOOSE i \in hits : \A j \in hits : i <= j ELSE 0

\* Lines 173-191: the first of codes_to_try that is the text of an offered
\* item, with the first item that has this text; 0 when no code is offered.
RECURSIVE FindItem(_, _)
FindItem(codes_to_try, items) ==
    IF codes_to_try = <<>> THEN 0
    ELSE LET hits == {i \in 1..Len(items) : items[i] = Head(codes_to_try)}
         IN  IF hits # {}
             THEN CHOOSE i \in hits : \A j \in hits : i <= j
             ELSE FindItem(Tail(codes_to_try), items)

codes_to_try(code_prestazioni) ==
    <<code_prestazioni, "Visite specialistiche", "Altre prestazioni">>

ConfirmCategory ==
    /\ pc = "check_request_accepted"
    /\ cs = 6
    /\ \E items \in Offered :
         LET item == FindItem(codes_to_try(patient_data.prestazioni), items)
         IN  /\ k_items' = items
             /\ IF item = 0
                THEN /\ Raise("ValueError: Unable to find prestazioni")
                     /\ UNCHANGED <<trace, cs>>
                ELSE /\ trace' = Append(trace, <<"selenium", "click", "k-item", items[item]>>)
                     /\ ConfirmAdvance
    /\ UNCHANGED wd
    /\ ConfirmStay

\* Lines 205-207: find_elements(...)[0].text
ConfirmMessage ==
    /\ pc = "check_request_accepted"
    /\ cs = 8
    /\ \/ /\ trace' = Append(trace, <<"selenium", "text", "//h4/following-sibling::p">>)
          /\ ConfirmAdvance
          /\ ConfirmLocals
       \/ /\ Raise("IndexError: list index out of range")
          /\ UNCHANGED <<trace, cs, k_items>>
    /\ UNCHANGED wd
    /\ ConfirmStay

(***************************************************************************)
(* The batch: process_patients from the login to the mail.                 *)
(***************************************************************************)
Next ==
    \/ Login
    \/ NextPatient
    \/ EndOfPatients
    \/ Quit
    \/ SendMail
    \/ DealBreakers
    \/ ForPnr
    \/ Finalize
    \/ FetchPatientData
    \/ ConfirmNavigate
    \/ ConfirmElement
    \/ ConfirmCategory
    \/ ConfirmMessage
    \/ FetchPic
    \/ FetchTelerikPdf
    \/ CheckPdf
    \/ RulesPatientData
    \/ RulesPdfAnalysis
    \/ NoPic
    \/ RulesWebportal

Spec == Init /\ [][Next]_vars

(***************************************************************************)
(* The WebDriver alone, under any sequence of post and get calls.          *)
(***************************************************************************)
SessionUrls == {url_login, url_identify_patient}
Backends == {"requests", "selenium", "pyppeteer"}

SessionInit ==
    /\ pc = "session"
    /\ exc = None
    /\ nPatients = 0
    /\ idx = 0
    /\ patient_data = NoPatient
    /\ comments = <<>>
    /\ k = 0
    /\ cs = 0
    /\ error_codes = {}
    /\ response = [rows |-> <<>>, sent |-> FALSE]
    /\ added = NoCall
    /\ wd = NewWebDriver
    /\ trace = <<>>
    /\ appended = <<>>
    /\ returned = <<>>
    /\ k_items = <<>>

SessionStay ==
    UNCHANGED <<pc, nPatients, idx, patient_data, comments, k, cs, error_codes,
                response, added, appended, returned, k_items>>

SessionPost ==
    /\ pc = "session"
    /\ \E url \in SessionUrls, resp \in SetCookies : wd' = post(wd, url, <<>>, resp)
    /\ exc' = None
    /\ trace' = << <<"post">> >>
    /\ SessionStay

\* exc is what the call raised, trace the call made.
SessionGet ==
    /\ pc = "session"
    /\ \E url \in SessionUrls, backend \in Backends,
          resp \in SetCookies, navResp \in SetCookies :
         LET r == get(wd, url, backend, resp, navResp)
         IN  wd' = r.wd /\ exc' = r.exc /\ trace' = << <<"get", backend>> >>
    /\ SessionStay

SessionNext == SessionPost \/ SessionGet

SessionSpec == SessionInit /\ [][SessionNext]_vars

(***************************************************************************)
(* Reading the state.                                                      *)
(***************************************************************************)
\* The trace is that of a call of process_pnr: it starts with a status fetch.
InCall == trace # <<>> /\ IsStatusFetch(trace[1])
\* The events of that call: the trace up to the add_patient that may follow.
Call ==
    IF trace # <<>> /\ trace[Len(trace)] = <<"add_patient">>
    THEN SubSeq(trace, 1, Len(trace) - 1)
    ELSE trace
\* The call is over when process_pnr returned or raised.
CallReturned == pc \in {"for_pnr", "loop", "quit", "send_mail", "done"}
CallOver == CallReturned \/ pc = "raised"
PicFetched(seg) == \E e \in Events(seg) : IsPicFetch(e) /\ e[8] = PnrOf(seg)
ConfirmCompleted(seg) == \E e \in Events(seg) : e = <<"selenium", "click_js", "btnIstruisci">>

Stopped == pc \in {"done", "raised"}
PatientFailures ==
    {"NoSuchElementException", "ValueError: Unable to find prestazioni",
     "IndexError: list index out of range", "KeyError: Data"}
Calls(i) == Cardinality({j \in 1..Len(response.rows) : response.rows[j] = i})
\* The patient in patient_data has left process_patient, by return or by raise.
Left == idx > 0 /\ pc \in {"loop", "quit", "send_mail", "done", "raised"}
Finalized == idx > 0 /\ pc \in {"loop", "quit", "send_mail", "done"}
Gated == execute("rules_context.deal_breakers.rules", patient_data, <<>>).passed > 0

(***************************************************************************)
(* C1 (as claimed): a failure while processing one patient never halts the *)
(* batch: when process_patients stops after no failure or a per-patient    *)
(* failure, every patient of the batch has been finalized and the response *)
(* has been sent.                                                          *)
(***************************************************************************)
C1_BatchIsolation ==
    (Stopped /\ exc \in PatientFailures \cup {None}) =>
        /\ response.rows = [i \in 1..nPatients |-> i]
        /\ response.sent

(***************************************************************************)
(* C2 (as claimed): add_patient is called exactly once for every patient   *)
(* that has left process_patient, whatever the path.                       *)
(***************************************************************************)
C2_AddPatientExactlyOnce ==
    \A i \in 1..idx : (i < idx \/ Left) => Calls(i) = 1

(***************************************************************************)
(* C3: a patient for which the deal-breaker group reports a matched rule   *)
(* is finalized at once with pic = None and the matched action texts       *)
(* joined in order as comment; no tracking id of it is processed and no    *)
(* request or page interaction is made for it.                             *)
(***************************************************************************)
C3_DealBreakerGate ==
    (idx > 0 /\ pc # "process_patient" /\ Gated) =>
        LET r == execute("rules_context.deal_breakers.rules", patient_data, <<>>)
        IN  /\ Finalized
            /\ Calls(idx) = 1
            /\ added.patient_data.pic = None
            /\ added.comments = join(r.actions)
            /\ k = 0
            /\ \A j \in 1..Len(trace) : ~IsRequest(trace[j])

C3_Witness ==
    /\ Finalized /\ Gated
    /\ Len(patient_data.pnr) > 0
    /\ Len(added.comments) = 3

(***************************************************************************)
(* C4 (as claimed): once the browser is started, quit() has run exactly    *)
(* once when process_patients is left, on every exit path.                 *)
(***************************************************************************)
C4_QuitExactlyOnce == Stopped => wd.quits = 1

(***************************************************************************)
(* C5 (as claimed): when the requests session has sent a request (GET or   *)
(* POST) to a domain and get(url, backend="selenium") is then called for a *)
(* URL of that domain, the browser's cookies for the domain include, at    *)
(* that moment, every cookie the requests session holds for the domain.    *)
(***************************************************************************)
RequestsCookiesFor(w, domain) ==
    {[name |-> c.name, value |-> c.value] :
        c \in {x \in w.reqJar : x.domain \in {domain, AnyDomain}}}
SeleniumCookiesFor(w, domain) ==
    {[name |-> c.name, value |-> c.value] : c \in {x \in w.selJar : x.domain = domain}}
\* This step is a get(url, backend="selenium") to the domain.
InteractiveGet(domain) ==
    /\ wd' # wd
    /\ wd'.wire # <<>>
    /\ wd'.wire[1][1] = "selenium"
    /\ wd'.wire[1][3] = domain

C5_CookieSync ==
    [][\A domain \in Domains :
          (InteractiveGet(domain) /\ domain \in wd.asked) =>
              RequestsCookiesFor(wd, domain) \subseteq SeleniumCookiesFor(wd, domain)]_vars

(***************************************************************************)
(* C6: a patient that passed the deal-breaker gate with a non-empty list   *)
(* of tracking ids is finalized after every tracking id of the list was    *)
(* processed, in list order, and with the status and the pic the last      *)
(* tracking id produced (pic = None when the last status is not 1 or 2,    *)
(* whatever an earlier tracking id obtained).                              *)
(***************************************************************************)
C6_LastWriteWins ==
    (Finalized /\ ~Gated /\ Len(patient_data.pnr) > 0) =>
        LET last == returned[Len(returned)]
        IN  /\ Calls(idx) = 1
            /\ [i \in 1..Len(returned) |-> returned[i].pnr] = patient_data.pnr
            /\ Has(added.patient_data, "pnr_status") /\ Has(added.patient_data, "pic")
            /\ ToString(added.patient_data.pnr_status) = last.status
            /\ added.patient_data.pic = last.pic
            /\ last.status \notin {"1", "2"} => added.patient_data.pic = None

C6_Witness ==
    /\ Finalized /\ ~Gated
    /\ Len(returned) = 2
    /\ returned[1].pic # None
    /\ returned[2].status \in {"0", "3"}
    /\ added.patient_data.pic = None

(***************************************************************************)
(* C7: the comment string of the add_patient call at the end of the        *)
(* workflow is the join of the one comment list, which holds every comment *)
(* appended during the tracking-id iterations, those of an earlier         *)
(* iteration before those of a later one, none lost or reordered.          *)
(***************************************************************************)
C7_CommentAggregation ==
    (Finalized /\ ~Gated) =>
        /\ comments = [j \in 1..Len(appended) |-> appended[j][2]]
        /\ added.comments = join([j \in 1..Len(appended) |-> appended[j][2]])
        /\ \A i \in 1..Len(appended), j \in 1..Len(appended) :
              i < j => appended[i][1] <= appended[j][1]

C7_Witness ==
    /\ Finalized /\ ~Gated
    /\ Len(returned) = 2
    /\ returned[1].status = "1"
    /\ returned[2].status = "2"
    /\ Len(appended) >= 4

(***************************************************************************)
(* C8 (as claimed): for a tracking id with status 1 or 2 the pic is always *)
(* asked for (a POST to GridAutorizzazioni_Read with the tracking id as    *)
(* FieldFilter), whatever happened in _check_request_accepted.             *)
(***************************************************************************)
C8_FetchAlwaysAttempted ==
    (InCall /\ CallOver /\ StatusOf(Call) \in {"1", "2"}) => PicFetched(Call)

(***************************************************************************)
(* C8 (amended): for a tracking id with status 2 the pic is always asked   *)
(* for; with status 1 it is asked for exactly when _check_request_accepted *)
(* ran to its last interaction, and not when it raised.                    *)
(***************************************************************************)
C8_FetchAfterConfirmation ==
    InCall =>
        /\ (CallOver /\ StatusOf(Call) = "2") => PicFetched(Call)
        /\ (CallOver /\ StatusOf(Call) = "1") =>
               (PicFetched(Call) <=> ConfirmCompleted(Call))
        /\ (StatusOf(Call) = "1" /\ PicFetched(Call)) => ConfirmCompleted(Call)

C8_Witness ==
    /\ Len(returned) = 2
    /\ returned[1].status = "2" /\ returned[1].pic # None
    /\ InCall /\ StatusOf(Call) = "1" /\ PicFetched(Call)
    /\ pc = "for_pnr"

(***************************************************************************)
(* C9: for a tracking id whose status is neither 1 nor 2, the iteration    *)
(* asks for no pic, fetches no document, calls no validator and evaluates  *)
(* neither the patient_data nor the pdf_analysis rules, and the record's   *)
(* pic is None when the iteration returns.                                 *)
(***************************************************************************)
C9_NoDocumentForOtherStatus ==
    (InCall /\ StatusOf(Call) \in {"0", "3"}) =>
        /\ \A e \in Events(Call) :
              /\ ~IsPicFetch(e)
              /\ e[1] \notin {"fetch_telerik_pdf", "check_pdf"}
              /\ ~IsRules(e, "rules_context.patient_data.rules")
              /\ ~IsRules(e, "rules_context.pdf_analysis.rules")
        /\ pc \in {"rules_webportal", "for_pnr"} =>
              Has(patient_data, "pic") /\ patient_data.pic = None

C9_Witness ==
    /\ Len(returned) = 2
    /\ returned[1].pic # None
    /\ InCall /\ StatusOf(Call) = "0"
    /\ pc = "for_pnr"
    /\ patient_data.pic = None

(***************************************************************************)
(* C10: in every tracking-id iteration that returned, whatever its branch, *)
(* the webportal rule group is evaluated exactly once, on the patient      *)
(* record, as the last step of the iteration: after the steps of the       *)
(* branch and before the status fetch of the next tracking id.             *)
(***************************************************************************)
PortalRules(seg) ==
    {j \in 1..Len(seg) : IsRules(seg[j], "rules_context.webportal.rules")}

C10_PortalRulesOncePerIteration ==
    InCall =>
        /\ Cardinality(PortalRules(Call)) <= 1
        /\ \A j \in PortalRules(Call) : j = Len(Call) /\ Call[j][3] = "patient_data"
        /\ CallReturned => Cardinality(PortalRules(Call)) = 1

C10_Witness ==
    /\ Len(returned) = 2
    /\ returned[1].status = "1" /\ returned[2].status = "3"
    /\ Finalized
    /\ InCall /\ Cardinality(PortalRules(Call)) = 1

(***************************************************************************)
(* C11: for a tracking id with status 1 the steps of process_pnr occur in  *)
(* this order, each once and none before the previous one is complete:     *)
(* status fetch, confirmation procedure (all its interactions), pic fetch, *)
(* document fetch, validator call with (pic, insurance name, fiscal code), *)
(* patient_data rules on the patient record, pdf_analysis rules on the     *)
(* validator's codes.                                                      *)
(***************************************************************************)
\* _cookies_requests_to_selenium's navigation to the root of the domain.
IsBareNavigation(e) ==
    Len(e) >= 4 /\ e[1] = "selenium" /\ e[2] = "GET" /\ e[4] = BareUrl(e[3])[2]
\* The step of process_pnr an event of the trace belongs to; the status
\* fetch includes the navigation that webdriver.get may add to it.
StepOf(e) ==
    CASE IsStatusFetch(e) \/ IsBareNavigation(e) \/ e[1] = "get_pnr_status" -> 1
      [] e[1] = "selenium" -> 2
      [] IsPicFetch(e) -> 3
      [] e[1] = "fetch_telerik_pdf" -> 4
      [] e[1] = "check_pdf" -> 5
      [] IsRules(e, "rules_context.patient_data.rules") -> 6
      [] IsRules(e, "rules_context.pdf_analysis.rules") -> 7
      [] IsRules(e, "rules_context.webportal.rules") -> 8
      [] OTHER -> 0
StepEvents(seg, step) == {j \in 1..Len(seg) : StepOf(seg[j]) = step}
\* The steps of the events of seg from the j-th on, in order.
RECURSIVE StepsFrom(_, _)
StepsFrom(seg, j) ==
    IF j > Len(seg) THEN <<>> ELSE <<StepOf(seg[j])>> \o StepsFrom(seg, j + 1)
\* The events a full confirmation procedure leaves, but for the label clicked.
ConfirmShape ==
    <<"GET", "send_keys", "click_js", "click_js", "click", "click", "click_js",
      "text", "send_keys", "click_js", "click_js">>

C11_AcceptedOrder ==
    (InCall /\ StatusOf(Call) = "1") =>
        LET call == Call
            steps == StepsFrom(call, 1)
            at(step) == {j \in 1..Len(call) : steps[j] = step}
        IN  /\ \A j \in 1..Len(call) : steps[j] # 0
            /\ \A j \in 1..(Len(call) - 1) : steps[j] <= steps[j + 1]
            /\ \A step \in 2..7 : at(step + 1) # {} => at(step) # {}
            /\ \A step \in 3..8 : Cardinality(at(step)) <= 1
            /\ at(3) # {} =>
                  /\ [j \in 1..Cardinality(at(2)) |->
                         call[j + Cardinality(at(1))][2]] = ConfirmShape
                  /\ PicFetched(call)
            /\ \A j \in at(4) : call[j][2] = patient_data.pic
            /\ \A j \in at(5) :
                  call[j] = <<"check_pdf", patient_data.pic, patient_data.insurance_name,
                              patient_data.codice_fiscale>>
            /\ \A j \in at(6) : call[j][3] = "patient_data"
            /\ \A j \in at(7) : call[j][3] = "error_codes"
            /\ CallReturned => at(7) # {}

C11_Witness ==
    /\ InCall /\ StatusOf(Call) = "1"
    /\ pc = "for_pnr"
    /\ \A step \in 1..8 : StepEvents(Call, step) # {}

(***************************************************************************)
(* C12: the confirmation procedure (any interaction with the page, the     *)
(* navigation to the confirmation page included) runs for a tracking id    *)
(* exactly when its status is 1; for status 2 it is skipped, and the pic   *)
(* fetch, the document fetch, the validator call and the two rule groups   *)
(* are those of the status 1 path.                                         *)
(***************************************************************************)
IsConfirmEvent(e) == e[1] = "selenium" /\ ~IsBareNavigation(e)
IsDocumentStep(e) == StepOf(e) >= 3
\* What process_pnr does from line 83 on, for the record it ends with.
DocumentPath(p, rec) ==
    LET pic == IF Has(rec, "pic") THEN rec.pic ELSE None
    IN  << <<"requests", "POST">> \o url_database \o <<"page=1", "pageSize=50", p>>,
           <<"fetch_telerik_pdf", pic>>,
           <<"check_pdf", pic, rec.insurance_name, rec.codice_fiscale>>,
           <<"rules", "rules_context.patient_data.rules", "patient_data">>,
           <<"rules", "rules_context.pdf_analysis.rules", "error_codes">>,
           <<"rules", "rules_context.webportal.rules", "patient_data">> >>
IsPrefix(s, t) == Len(s) <= Len(t) /\ s = SubSeq(t, 1, Len(s))

C12_ConfirmationOnlyWhenAccepted ==
    InCall =>
        /\ (\E e \in Events(Call) : IsConfirmEvent(e)) => StatusOf(Call) = "1"
        /\ (StatusOf(Call) = "1" /\ ~(pc = "check_request_accepted" /\ cs = 1)) =>
               \E e \in Events(Call) : IsConfirmNavigation(e)
        /\ StatusOf(Call) \in {"1", "2"} =>
               LET path == DocumentPath(PnrOf(Call), patient_data)
                   done == SelectSeq(Call, IsDocumentStep)
               IN  /\ IF Len(done) <= 1
                      THEN done = <<>> \/ done = <<path[1]>>
                      ELSE IsPrefix(done, path)
                   /\ CallReturned => done = path

C12_Witness ==
    /\ Len(returned) = 2
    /\ returned[1].status = "1"
    /\ InCall /\ StatusOf(Call) = "2"
    /\ pc = "for_pnr"
    /\ SelectSeq(Call, IsDocumentStep) = DocumentPath(PnrOf(Call), patient_data)
    /\ \A e \in Events(Call) : ~IsConfirmEvent(e)

(***************************************************************************)
(* C13: whatever options the portal offers, the option clicked is the      *)
(* first offered one whose label is the first of the candidates [category  *)
(* of the procedure code, "Visite specialistiche", "Altre prestazioni"]    *)
(* that is among the labels offered: a later candidate is clicked only     *)
(* when every earlier one is absent, and exactly one option is clicked.    *)
(***************************************************************************)
CategoryClicks(seg) ==
    {j \in 1..Len(seg) : Len(seg[j]) = 4 /\ seg[j][1] = "selenium" /\ seg[j][2] = "click"
                          /\ seg[j][3] = "k-item"}
LabelsOf(items) == {items[i] : i \in 1..Len(items)}
\* The positions in the candidate list of the candidates that are offered.
PresentCandidates(code_prestazioni, items) ==
    {c \in 1..3 : codes_to_try(code_prestazioni)[c] \in LabelsOf(items)}

C13_FirstMatchWins ==
    InCall =>
        /\ Cardinality(CategoryClicks(Call)) <= 1
        /\ (pc = "check_request_accepted" /\ cs > 6) => CategoryClicks(Call) # {}
        /\ (pc = "fetch_pic" /\ StatusOf(Call) = "1") => CategoryClicks(Call) # {}
        \* while _check_request_accepted has not returned
        /\ (CategoryClicks(Call) # {} /\ ~ConfirmCompleted(Call)) =>
              LET present == PresentCandidates(patient_data.prestazioni, k_items)
                  clicked == Call[CHOOSE j \in CategoryClicks(Call) : TRUE][4]
              IN  /\ present # {}
                  /\ \A c \in present :
                        (\A d \in present : c <= d) =>
                            clicked = codes_to_try(patient_data.prestazioni)[c]

\* A later candidate is offered before an earlier one, and the earlier one
\* is clicked.
C13_Witness ==
    /\ InCall
    /\ pc = "check_request_accepted" /\ cs = 7
    /\ patient_data.prestazioni = "Chirurgia dermatologica"
    /\ k_items = <<"Altre prestazioni", "Visite specialistiche">>
    /\ Call[Len(Call)] = <<"selenium", "click", "k-item", "Visite specialistiche">>

(***************************************************************************)
(* The exceptions of the program by class: a handler tells exceptions      *)
(* apart by their class.                                                   *)
(***************************************************************************)
ExcClass(e) ==
    CASE e \in {"ValueError: username or password missing", "ValueError: Unknown backend",
                "ValueError: Unable to find prestazioni"} -> "ValueError"
      [] e = "IndexError: list index out of range" -> "IndexError"
      [] e = "KeyError: Data" -> "KeyError"
      [] OTHER -> e
\* What the program raises for a missing credential and an unknown backend.
ConfigurationErrors ==
    {"ValueError: username or password missing", "ValueError: Unknown backend"}
\* _check_request_accepted raised where it looks for the category.
CategorySearchFailed == InCall /\ pc = "raised" /\ cs = 6

(***************************************************************************)
(* C14 (as claimed): when none of the three candidates is among the        *)
(* options offered (no option at all included), the confirmation fails     *)
(* with an error of a class of its own, which no configuration error has,  *)
(* no option is clicked and no verify, justification or submit interaction *)
(* is made for the tracking id.                                            *)
(***************************************************************************)
C14_NoMatchingCategory ==
    /\ (InCall /\ StatusOf(Call) = "1" /\ ~ConfirmCompleted(Call)
          /\ (cs > 6 \/ (cs = 6 /\ pc = "raised"))) =>
           (PresentCandidates(patient_data.prestazioni, k_items) = {}
               <=> CategorySearchFailed)
    /\ CategorySearchFailed =>
           /\ \A c \in ConfigurationErrors : ExcClass(c) # ExcClass(exc)
           /\ CategoryClicks(Call) = {}
           /\ \A e \in Events(Call) :
                 e \notin {Interaction(7), Interaction(9), Interaction(11)}

\* The same but for the class of the error.
C14_NoInteractionAfterFailure ==
    /\ (InCall /\ StatusOf(Call) = "1" /\ ~ConfirmCompleted(Call)
          /\ (cs > 6 \/ (cs = 6 /\ pc = "raised"))) =>
           (PresentCandidates(patient_data.prestazioni, k_items) = {}
               <=> CategorySearchFailed)
    /\ CategorySearchFailed =>
           /\ exc = "ValueError: Unable to find prestazioni"
           /\ CategoryClicks(Call) = {}
           /\ \A e \in Events(Call) :
                 e \notin {Interaction(7), Interaction(9), Interaction(11)}

(***************************************************************************)
(* C15 (as claimed): the pic lookup never ends in an indexing fault: for   *)
(* an empty result set it fails with an error of another class, and for a  *)
(* non-empty one the pic is the authorization of the first row.            *)
(***************************************************************************)
\* process_pnr raised in _fetch_pic_from_database: the POST is its last event.
PicLookupFailed == InCall /\ pc = "raised" /\ IsPicFetch(Call[Len(Call)])

C15_PicNotFoundIsTyped ==
    /\ PicLookupFailed => ExcClass(exc) # "IndexError"
    /\ (InCall /\ pc = "fetch_telerik_pdf") =>
           patient_data.pic = PicFor(PnrOf(Call))

\* The same but for the class of the error: an IndexError for the empty set.
C15_FirstRow ==
    /\ PicLookupFailed => ExcClass(exc) \in {"IndexError", "KeyError"}
    /\ (InCall /\ pc = "fetch_telerik_pdf") =>
           patient_data.pic = PicFor(PnrOf(Call))

(***************************************************************************)
(* C16 (as claimed): a failure of one tracking id (missing element, no     *)
(* matching category, unexpected response shape, pic not found) is         *)
(* recovered inside the patient's workflow: when the program stops after   *)
(* such a failure, a comment of the failing iteration is in the patient's  *)
(* comment list and every tracking id of the patient was processed.        *)
(***************************************************************************)
C16_TrackingIdFailureRecovered ==
    (Stopped /\ exc \in PatientFailures) =>
        /\ k = Len(patient_data.pnr)
        \* the failing iteration is the first one that did not return
        /\ \E j \in 1..Len(appended) : appended[j][1] = Len(returned) + 1

(***************************************************************************)
(* C17: login with non-empty credentials sends exactly two POSTs to the    *)
(* login form, to the same URL and with the same UserName and Password,    *)
(* one right after the other with no other request of either backend in    *)
(* between, and before any request made for a patient.                     *)
(***************************************************************************)
LoginPost(username, password) ==
    <<"requests", "POST">> \o url_login \o <<username, password>>
\* login returned and no patient has been taken yet.
LoggedIn == pc = "loop" /\ idx = 0

C17_LoginTwice ==
    /\ pc = "login" => (trace = <<>> /\ wd.wire = <<>> /\ wd.asked = {} /\ idx = 0)
    /\ LoggedIn =>
          \E username \in Credentials \ {""}, password \in Credentials \ {""} :
              trace = <<LoginPost(username, password), LoginPost(username, password)>>
    /\ idx > 0 => LoginDomain \in wd.asked

C17_Witness ==
    /\ LoggedIn
    /\ trace = <<LoginPost("centro01", "centro01"), LoginPost("centro01", "centro01")>>
    /\ wd.reqJar # {}

(***************************************************************************)
(* C18: with an empty string as username or as password, login fails       *)
(* before any POST is sent: no login POST ever carries an empty username   *)
(* or password, and after the failure no request was made, no patient was  *)
(* processed and add_patient was never called.                             *)
(***************************************************************************)
IsLoginPost(e) ==
    Len(e) = 7 /\ SubSeq(e, 1, 5) = <<"requests", "POST">> \o url_login
LoginFailed == pc = "raised" /\ exc = "ValueError: username or password missing"

C18_EmptyCredentialIsFatal ==
    /\ \A e \in Events(trace) : IsLoginPost(e) => (e[6] # "" /\ e[7] # "")
    /\ LoggedIn => \E e \in Events(trace) : IsLoginPost(e)
    /\ LoginFailed =>
          /\ trace = <<>> /\ wd.wire = <<>> /\ wd.asked = {}
          /\ idx = 0
          /\ response.rows = <<>> /\ added = NoCall
    /\ (pc = "raised" /\ idx = 0) => LoginFailed

C18_Witness == LoginFailed /\ nPatients > 0

(***************************************************************************)
(* C19 (as claimed): a credential that is missing (the environment         *)
(* variable is not set, os.getenv gives None) aborts the batch before any  *)
(* login POST: no login POST ever carries None as username or password.    *)
(***************************************************************************)
C19_MissingCredentialIsFatal ==
    \A e \in Events(trace) : IsLoginPost(e) => (e[6] # None /\ e[7] # None)

(***************************************************************************)
(* C20: get(url, backend) with a backend other than "requests" and         *)
(* "selenium" raises the ValueError of an unknown backend and does         *)
(* nothing else: no request on either engine, both cookie jars and         *)
(* current_url as before; with a known backend it does not raise.          *)
(***************************************************************************)
\* This step is a call of get with the backend named.
GetWith(backend) == trace' = << <<"get", backend>> >>

C20_UnknownBackend ==
    [][\A backend \in Backends :
          GetWith(backend) =>
              IF backend \in {"requests", "selenium"}
              THEN exc' = None
              ELSE /\ exc' = "ValueError: Unknown backend"
                   /\ wd'.reqJar = wd.reqJar /\ wd'.selJar = wd.selJar
                   /\ wd'.current_url = wd.current_url
                   /\ wd' = wd]_vars

C20_Witness ==
    /\ trace = << <<"get", "pyppeteer">> >>
    /\ exc = "ValueError: Unknown backend"
    /\ wd.reqJar # {} /\ wd.selJar # {}
    /\ wd.current_url = url_identify_patient

(***************************************************************************)
(* C21: the patients are processed one at a time in input order: the       *)
(* add_patient calls are those of patients 1, 2, ... in this order, and a  *)
(* patient is taken, with nothing requested or evaluated for it yet, only  *)
(* when every earlier patient has had its add_patient call, after which    *)
(* nothing more is done for that earlier patient.                          *)
(***************************************************************************)
C21_OneAtATimeInOrder ==
    /\ response.rows = [i \in 1..Len(response.rows) |-> i]
    /\ Len(response.rows) \in {idx - 1, idx}
    /\ pc = "process_patient" =>
          /\ Len(response.rows) = idx - 1
          /\ trace = <<>> /\ appended = <<>> /\ returned = <<>>
    /\ (idx > 0 /\ Len(response.rows) = idx) =>
          /\ pc \in {"loop", "quit", "send_mail", "done"}
          /\ trace[Len(trace)] = <<"add_patient">>

C21_Witness ==
    /\ idx = 2
    /\ response.rows = <<1, 2>>
    /\ Len(returned) = 2
    /\ pc = "loop"

(***************************************************************************)
(* C22 (as claimed): a confirmation procedure that ran to its end made its *)
(* interactions with the page in this order: navigate to the confirmation  *)
(* page, enter the tracking id, submit the search, acknowledge the match,  *)
(* open the category picker, select a category, submit the search again,   *)
(* enter the note, submit the authorization.                               *)
(***************************************************************************)
\* The interactions of the call with the page, in order.
ConfirmEvents(seg) == SelectSeq(seg, IsConfirmEvent)
IsClaimedInteraction(e) ==
    e \notin {<<"selenium", "click_js", "btnVerifica">>,
              <<"selenium", "text", "//h4/following-sibling::p">>}
Navigation == <<"selenium", "GET">> \o url_identify_patient
Selection(label) == <<"selenium", "click", "k-item", label>>

C22_SearchBeforeNote ==
    (InCall /\ ConfirmCompleted(Call)) =>
        LET done == SelectSeq(ConfirmEvents(Call), IsClaimedInteraction)
        IN  /\ Len(done) = 9
            /\ done = <<Navigation,
                        <<"selenium", "send_keys", "PNR", PnrOf(Call)>>,
                        <<"selenium", "click_js", "cercaQuadro">>,
                        <<"selenium", "click_js", "btnQuadroOK">>,
                        <<"selenium", "click", ".k-widget.k-multiselect.k-multiselect-clearable">>,
                        Selection(done[6][4]),
                        <<"selenium", "click_js", "cercaQuadro">>,
                        <<"selenium", "send_keys", "NoteAuth", patient_data.esame>>,
                        <<"selenium", "click_js", "btnIstruisci">> >>

(***************************************************************************)
(* C22 (amended): the interactions of a confirmation procedure are, in     *)
(* this order and up to where it stopped: navigate to the confirmation     *)
(* page, enter the tracking id, submit the search, acknowledge the match,  *)
(* open the category picker, select a category, click verify, read the     *)
(* portal's message, enter the note, submit the search again, submit the   *)
(* authorization; the note is entered before the search is submitted       *)
(* again and the authorization submit is the last interaction.             *)
(***************************************************************************)
ConfirmationOrder(p, esame, label) ==
    <<Navigation,
      <<"selenium", "send_keys", "PNR", p>>,
      <<"selenium", "click_js", "cercaQuadro">>,
      <<"selenium", "click_js", "btnQuadroOK">>,
      <<"selenium", "click", ".k-widget.k-multiselect.k-multiselect-clearable">>,
      Selection(label),
      <<"selenium", "click_js", "btnVerifica">>,
      <<"selenium", "text", "//h4/following-sibling::p">>,
      <<"selenium", "send_keys", "NoteAuth", esame>>,
      <<"selenium", "click_js", "cercaQuadro">>,
      <<"selenium", "click_js", "btnIstruisci">> >>

C22_NoteBeforeSearch ==
    InCall =>
        LET done == ConfirmEvents(Call)
            label == IF Len(done) >= 6 THEN done[6][4] ELSE ""
            order == ConfirmationOrder(PnrOf(Call), patient_data.esame, label)
        IN  /\ IsPrefix(done, order)
            /\ ConfirmCompleted(Call) => done = order
            /\ (pc = "check_request_accepted" /\ cs > 1) => Len(done) = cs - 1

C22_Witness ==
    /\ InCall /\ ConfirmCompleted(Call)
    /\ pc = "fetch_pic"
    /\ Len(ConfirmEvents(Call)) = 11

(***************************************************************************)
(* C23 (as claimed): during a get with the requests backend to a domain,   *)
(* the browser makes a bare navigation to the domain exactly when it has   *)
(* never visited the domain before, so at most one per domain, also when   *)
(* the browser holds no cookie for the domain or is on a page of another   *)
(* domain.                                                                 *)
(***************************************************************************)
\* This step is a get(url, backend="requests") to the domain.
LightweightGet(domain) ==
    /\ GetWith("requests")
    /\ wd'.wire[1][3] = domain
BareNavigations(wire, domain) ==
    {j \in 1..Len(wire) : IsBareNavigation(wire[j]) /\ wire[j][3] = domain}

C23_BareNavigationOnce ==
    [][\A domain \in Domains :
          LightweightGet(domain) =>
              (BareNavigations(wd'.wire, domain) # {} <=> domain \notin wd.visited)]_vars

\* What the code does: the navigation is made exactly when none of the
\* cookies of the browser's current page is of the domain.
C23_NavigationWithoutCookie ==
    [][\A domain \in Domains :
          LightweightGet(domain) =>
              (BareNavigations(wd'.wire, domain) # {}
                  <=> ~\E c \in SeleniumCookies(wd) : c.domain = domain)]_vars

(***************************************************************************)
(* C24 (as claimed): right after a get with the selenium backend to a page *)
(* of a domain, the requests jar holds, for that domain, every cookie      *)
(* (name and value) the browser holds for it, and no other value for any   *)
(* of these names.                                                         *)
(***************************************************************************)
\* The last call was get(url, backend="selenium").
AfterInteractiveGet == trace = << <<"get", "selenium">> >>

C24_JarsAgreeAfterInteractiveGet ==
    AfterInteractiveGet =>
        LET held == SeleniumCookiesFor(wd, wd.selDomain)
            sent == RequestsCookiesFor(wd, wd.selDomain)
        IN  /\ held \subseteq sent
            /\ \A c \in sent, h \in held : c.name = h.name => c.value = h.value

\* What the code does: the browser's cookies are in the requests jar, under
\* no domain.
C24_CopiedUnderNoDomain ==
    AfterInteractiveGet =>
        \A h \in SeleniumCookiesFor(wd, wd.selDomain) :
            [domain |-> AnyDomain, name |-> h.name, value |-> h.value] \in wd.reqJar

(***************************************************************************)
(* C25 (as claimed): the cookies a get with the requests backend to a      *)
(* domain adds to the browser's jar for the domain are cookies the         *)
(* requests jar holds for that domain, never a cookie it holds for another *)
(* domain only. Checked on the calls without a bare navigation, where the  *)
(* server sets no cookie in the browser.                                   *)
(***************************************************************************)
C25_InjectionPerDomain ==
    [][\A domain \in Domains :
          (LightweightGet(domain) /\ BareNavigations(wd'.wire, domain) = {}) =>
              \A c \in SeleniumCookiesFor(wd', domain) \ SeleniumCookiesFor(wd, domain) :
                  c \in RequestsCookiesFor(wd', domain)]_vars

\* What the code does: every cookie of get_dict(), whatever its domain, is
\* in the jar of the browser's page after the call.
C25_InjectionOfAllCookies ==
    [][\A domain \in Domains :
          LightweightGet(domain) =>
              get_dict(wd') \subseteq SeleniumCookiesFor(wd', wd'.selDomain)]_vars

(***************************************************************************)
(* C26: a patient that passes the deal-breaker gate with an empty list of  *)
(* tracking ids is finalized exactly once with the empty comment string;   *)
(* no request is made and no page is touched for it, its record gets       *)
(* neither a status nor a pic, nothing is raised, and the loop over the    *)
(* patients goes on.                                                       *)
(***************************************************************************)
\* The patient in process has passed the gate and has no tracking id.
NoTrackingId ==
    idx > 0 /\ pc # "process_patient" /\ ~Gated /\ patient_data.pnr = <<>>

C26_EmptyTrackingIds ==
    NoTrackingId =>
        /\ exc = None
        /\ pc \in {"for_pnr", "loop", "quit", "send_mail", "done"}
        /\ k = 0 /\ returned = <<>> /\ comments = <<>>
        /\ \A j \in 1..Len(trace) : ~IsRequest(trace[j]) /\ trace[j][1] # "get_pnr_status"
        /\ ~Has(patient_data, "pnr_status") /\ ~Has(patient_data, "pic")
        /\ pc = "for_pnr" => Calls(idx) = 0
        /\ pc # "for_pnr" =>
              /\ Calls(idx) = 1
              /\ added = [patient_data |-> patient_data, comments |-> <<>>]
              /\ trace[Len(trace)] = <<"add_patient">>

\* The loop is back at its head with another patient to take.
C26_Witness ==
    /\ NoTrackingId
    /\ pc = "loop"
    /\ idx = 1 /\ nPatients = 2
    /\ response.rows = <<1>>
    /\ wd.quits = 0

(***************************************************************************)
(* C27: from the navigation to the confirmation page to the authorization  *)
(* submit of a tracking id, nothing but the interactions of the procedure  *)
(* happens: no request of the requests session and no bare navigation, so  *)
(* the browser stays where the navigation of the procedure put it.         *)
(***************************************************************************)
\* _check_request_accepted is past its navigation and has not returned.
Confirming == pc = "check_request_accepted" /\ cs > 1

C27_NoFetchDuringConfirmation ==
    /\ Confirming =>
          /\ wd.wire = <<Navigation>>
          /\ wd.selDomain = PortalDomain
          /\ wd.current_url = url_identify_patient
    /\ InCall =>
          LET call == Call
              navs == {j \in 1..Len(call) : call[j] = Navigation}
              ends == {j \in 1..Len(call) : call[j] = Interaction(LastInteraction)}
          IN  /\ Cardinality(navs) <= 1
              /\ \A n \in navs, j \in 1..Len(call) :
                    (n < j /\ \A e \in ends : j <= e) => IsConfirmEvent(call[j])
              /\ Confirming => navs # {}

C27_Witness ==
    /\ Confirming /\ cs = LastInteraction
    /\ Len(returned) = 1
    /\ \E j \in 1..Len(trace) : IsBareNavigation(trace[j])

====
